---- MODULE Spec2Model ----
(***************************************************************************)
(* Model of the Vulkan bootstrap of mkehrt/cinder.                         *)
(*                                                                         *)
(*   Spec     : Vulkan::new followed by Drop for Vulkan (src/vulkan.rs).   *)
(*              Every driver call is one step; the driver's answer (a      *)
(*              failure, a list, a count) is chosen when the call is made. *)
(*   SpecQF   : get_queue_family_indices of src/vulkan.rs and of           *)
(*              src/main.rs applied to every bounded queue-family list.    *)
(*   SpecImg  : the image count requested at swap-chain creation applied   *)
(*              to every bounded pair of surface capabilities.             *)
(***************************************************************************)
EXTENDS Integers, Sequences, FiniteSets, TLC

\* ------------------------------------------------------------------ bounds
MaxFamilies == 2    \* queue families reported by the physical device
MaxImages == 3      \* images a swap chain returns
MaxCount == 9       \* largest min/max image count of the surface capabilities
MaxDevices == 1     \* physical devices enumerated

\* --------------------------------------------------------- program constants
DesiredImageCount == 3          \* vulkan.rs:411, "3.max(...)"

ErrNoGraphics == "No graphics queue family index found."
ErrNoTransfer == "No valid transfer queue family index found."
ErrNoSurfaceFormat == "No surface format found"
ErrNoSurfaceFormats == "No surface formats found: {}"
ErrNoPresentMode == "No surface present mode found"
ErrVk == "vk::Result"
ImageViewFormat == "B8G8R8A8_UNORM"

\* --------------------------------------------------------------- environment
Formats == {"B8G8R8A8_UNORM", "R8G8B8A8_SRGB"}
PresentModes == {"FIFO", "MAILBOX"}
Extents == {[width |-> 800, height |-> 600], [width |-> 1024, height |-> 768]}
NoExtent == [width |-> 0, height |-> 0]

RECURSIVE SeqsUpTo(_, _)
SeqsUpTo(S, n) ==
    IF n = 0 THEN {<<>>}
    ELSE LET shorter == SeqsUpTo(S, n - 1)
         IN  shorter \cup {Append(s, x) : s \in shorter, x \in S}

QueueFamilyProperties ==
    [queue_count : 0..1, graphics : BOOLEAN, transfer : BOOLEAN,
     surface_support : {"true", "false", "error"}]

\* A physical device reports at least one queue family.
QueueFamilyLists == SeqsUpTo(QueueFamilyProperties, MaxFamilies) \ {<<>>}

Max(a, b) == IF a >= b THEN a ELSE b
Min(a, b) == IF a <= b THEN a ELSE b

RECURSIVE Reverse(_)
Reverse(s) == IF s = <<>> THEN <<>> ELSE Append(Reverse(Tail(s)), Head(s))

Range(s) == {s[k] : k \in DOMAIN s}

\* ------------------------------------------------------------------- objects
Obj(kind, n) == [kind |-> kind, idx |-> n]

VkInst == Obj("instance", 0)
Messenger == Obj("debug_utils_messenger", 0)
Surface == Obj("surface", 0)
Device == Obj("logical_device", 0)
Swapchain == Obj("swapchain", 0)
RenderPass == Obj("render_pass", 0)
VertexShader == Obj("vertex_shader_module", 0)
FragmentShader == Obj("fragment_shader_module", 0)
PipelineLayout == Obj("pipeline_layout", 0)
Pipeline == Obj("pipeline", 0)
PoolGraphics == Obj("command_pool_graphics", 0)
PoolTransfer == Obj("command_pool_transfer", 0)
ImageView(n) == Obj("image_view", n)
Framebuffer(n) == Obj("framebuffer", n)
CommandBuffer(n) == Obj("commandbuffer", n)

\* The handles each create call of the source is given: the objects the
\* created object depends on.
Parents(o) ==
    CASE o.kind = "instance" -> {}
      [] o.kind = "debug_utils_messenger" -> {VkInst}
      [] o.kind = "surface" -> {VkInst}
      [] o.kind = "logical_device" -> {VkInst}
      [] o.kind = "swapchain" -> {Surface, Device}
      [] o.kind = "image_view" -> {Swapchain, Device}
      [] o.kind = "render_pass" -> {Device}
      [] o.kind = "vertex_shader_module" -> {Device}
      [] o.kind = "fragment_shader_module" -> {Device}
      [] o.kind = "pipeline_layout" -> {Device}
      [] o.kind = "pipeline" ->
            {Device, VertexShader, FragmentShader, PipelineLayout, RenderPass}
      [] o.kind = "framebuffer" -> {Device, RenderPass, ImageView(o.idx)}
      [] o.kind = "command_pool_graphics" -> {Device}
      [] o.kind = "command_pool_transfer" -> {Device}
      [] o.kind = "commandbuffer" -> {Device, PoolGraphics}

\* ---------------------------------------------------------------------- state
VARIABLES
    pc,                     \* the next call of Vulkan::new / drop, or a final state
    i,                      \* position of the loop in progress
    live,                   \* objects created and not destroyed
    created,                \* objects in the order they were created
    destroyed,              \* objects in the order they were destroyed
    calls,                  \* the driver calls issued, with their outcome
    error,                  \* the error Vulkan::new returned, "" when none
    physical_device,        \* new: the outcome of create_physical_device
    extent,                 \* new: let extent
    current_extent,         \* the current extent of the latest capabilities report
    queue_family_indices,   \* new: let queue_family_indices
    queue_infos,            \* create_logcal_device: family index of each queue request
    surface_present_mode,   \* create_swapchain_and_image_views: first present mode
    surface_formats,        \* the format list of the surface, once it was reported
    surface_format,         \* create_swapchain_and_image_views: let surface_format
    swapchain_create_info,  \* the create info handed to create_swapchain
    swapchain_images,       \* number of images get_swapchain_images returned
    swapchain_image_views,  \* Vec<vk::ImageView>
    image_view_infos,       \* the create info of each image view
    attachment_format,      \* create_attachments: format of the color attachment
    pipeline_extent,        \* create_shaders_and_pipeline: viewport and scissor extent
    framebuffers,           \* Vec<vk::Framebuffer>
    framebuffer_infos,      \* the create info of each framebuffer
    commandbuffers,         \* Vec<vk::CommandBuffer>
    recorded,               \* the commands recorded into each command buffer
    queue_family_properties,\* SpecQF: the queue-family list under selection
    qf_result,              \* SpecQF: result of vulkan.rs get_queue_family_indices
    qf_result_main,         \* SpecQF: result of main.rs get_queue_family_indices
    surface_capabilities,   \* SpecImg: min_image_count and max_image_count
    min_image_count,        \* SpecImg: the image count requested
    fpc                     \* SpecQF, SpecImg: "input" before the call, then "done"

handles == <<live, created, destroyed>>
sel == <<physical_device, extent, current_extent, queue_family_indices,
        queue_infos>>
swap == <<surface_present_mode, surface_formats, surface_format,
          swapchain_create_info, swapchain_images, swapchain_image_views,
          image_view_infos>>
rend == <<attachment_format, pipeline_extent, framebuffers, framebuffer_infos>>
cmd == <<commandbuffers, recorded>>
locals == <<sel, swap, rend, cmd>>
pure == <<queue_family_properties, qf_result, qf_result_main,
          surface_capabilities, min_image_count, fpc>>
vars == <<pc, i, handles, calls, error, locals, pure>>

NoIndices == [status |-> "none"]
NoDevice == [status |-> "none"]
NoCreateInfo == [status |-> "none"]
NoFormats == [reported |-> FALSE, formats |-> <<>>]
NoCapabilities == [min_image_count |-> 0, max_image_count |-> 0]

PureIdle ==
    /\ queue_family_properties = <<>>
    /\ qf_result = NoIndices
    /\ qf_result_main = NoIndices
    /\ surface_capabilities = NoCapabilities
    /\ min_image_count = 0
    /\ fpc = "idle"

BootIdle ==
    /\ i = 0
    /\ live = {}
    /\ created = <<>>
    /\ destroyed = <<>>
    /\ calls = <<>>
    /\ error = ""
    /\ physical_device = NoDevice
    /\ extent = NoExtent
    /\ current_extent = NoExtent
    /\ queue_family_indices = NoIndices
    /\ queue_infos = <<>>
    /\ surface_present_mode = ""
    /\ surface_formats = NoFormats
    /\ surface_format = ""
    /\ swapchain_create_info = NoCreateInfo
    /\ swapchain_images = 0
    /\ swapchain_image_views = <<>>
    /\ image_view_infos = <<>>
    /\ attachment_format = ""
    /\ pipeline_extent = NoExtent
    /\ framebuffers = <<>>
    /\ framebuffer_infos = <<>>
    /\ commandbuffers = <<>>
    /\ recorded = <<>>

\* Vulkan::new is entered with nothing created.
Init ==
    /\ pc = "create_instance"
    /\ BootIdle
    /\ PureIdle

\* ------------------------------------------------------------ driver calls
Call(fn, ok) == calls' = Append(calls, [fn |-> fn, ok |-> ok])

\* vulkan.rs:672, 676, 704: fill_commandbuffers returns Result<(), vk::Result>
\* and passes the driver's result code on with `?`; the value names no
\* command buffer, whatever buffer k failed.
ErrorNamesBuffer(e, k) == FALSE

\* `?` on a failed call: new returns the error; nothing is destroyed, the
\* handles are plain values without a destructor.
ReturnErr(e) ==
    /\ pc' = "failed"
    /\ error' = e

\* A successful create call: the handle is alive from now on.
Create(o) ==
    /\ live' = live \cup {o}
    /\ created' = Append(created, o)
    /\ UNCHANGED destroyed

\* A destroy call: the objects of `freed` are gone, in that order.
Destroy(freed) ==
    /\ live' = live \ Range(freed)
    /\ destroyed' = destroyed \o freed
    /\ UNCHANGED created

\* ------------------------------------------- get_queue_family_indices
\* vulkan.rs:264-268
GraphicsEligible(p) ==
    p.queue_count > 0 /\ p.graphics /\ p.surface_support = "true"

\* Variant of TransferEligible that accepts a family without queues.
TransferEligibleAnyCount(p) ==
    p.transfer

\* vulkan.rs:272-275, main.rs:144-147
TransferEligible(p) ==
    p.queue_count > 0 /\ p.transfer

\* main.rs:137-140: no surface is consulted
MainGraphicsEligible(p) ==
    p.queue_count > 0 /\ p.graphics

\* A surface-support query answered as if it could not fail.
SurfaceSupportFailsNever(p) == FALSE

\* vulkan.rs:257-263: the surface-support query of one family fails and `?`
\* leaves the function.
SurfaceSupportFails(p) == p.surface_support = "error"

\* The loop of vulkan.rs:256-279 from position `index` (1-based here, the
\* pushed index is the 0-based `index as u32`).  A failing surface-support
\* query ends the loop with the error.
RECURSIVE QfScan(_, _, _, _)
QfScan(props, index, found_graphics, found_transfer) ==
    IF index > Len(props)
    THEN [status |-> "scanned", graphics |-> found_graphics,
          transfer |-> found_transfer, examined |-> Len(props)]
    ELSE IF SurfaceSupportFails(props[index])
    THEN [status |-> ErrVk, graphics |-> found_graphics,
          transfer |-> found_transfer, examined |-> index]
    ELSE QfScan(props, index + 1,
                IF GraphicsEligible(props[index])
                THEN Append(found_graphics, index - 1) ELSE found_graphics,
                IF TransferEligible(props[index])
                THEN Append(found_transfer, index - 1) ELSE found_transfer)

\* The selection with the transfer index required to differ from the
\* graphics index, as the line commented out at vulkan.rs:289 would do.
GetQueueFamilyIndicesDistinct(props) ==
    LET scan == QfScan(props, 1, <<>>, <<>>)
        others == IF scan.graphics = <<>> THEN <<>>
                  ELSE SelectSeq(scan.transfer,
                                 LAMBDA t : t # Head(scan.graphics))
    IN  IF scan.status # "scanned"
        THEN [status |-> scan.status, examined |-> scan.examined]
        ELSE IF scan.graphics = <<>>
        THEN [status |-> ErrNoGraphics, examined |-> scan.examined]
        ELSE IF others = <<>>
        THEN [status |-> ErrNoTransfer, examined |-> scan.examined]
        ELSE [status |-> "ok", graphics |-> Head(scan.graphics),
              transfer |-> Head(others), examined |-> scan.examined]

\* vulkan.rs:245-299
GetQueueFamilyIndices(props) ==
    LET scan == QfScan(props, 1, <<>>, <<>>)
    IN  IF scan.status # "scanned"
        THEN [status |-> scan.status, examined |-> scan.examined]
        ELSE IF scan.graphics = <<>>
        THEN [status |-> ErrNoGraphics, examined |-> scan.examined]
        ELSE IF scan.transfer = <<>>
        THEN [status |-> ErrNoTransfer, examined |-> scan.examined]
        ELSE [status |-> "ok", graphics |-> Head(scan.graphics),
              transfer |-> Head(scan.transfer), examined |-> scan.examined]

\* The loop of main.rs:136-151.
RECURSIVE MainQfScan(_, _, _, _)
MainQfScan(props, index, found_graphics, found_transfer) ==
    IF index > Len(props)
    THEN [graphics |-> found_graphics, transfer |-> found_transfer]
    ELSE MainQfScan(props, index + 1,
                    IF MainGraphicsEligible(props[index])
                    THEN Append(found_graphics, index - 1) ELSE found_graphics,
                    IF TransferEligible(props[index])
                    THEN Append(found_transfer, index - 1) ELSE found_transfer)

\* main.rs:127-167: the transfer index is the first one that differs from
\* the graphics index (`.find(|index| *index != graphics_queue_family_index)`).
MainGetQueueFamilyIndices(props) ==
    LET scan == MainQfScan(props, 1, <<>>, <<>>)
    IN  IF scan.graphics = <<>>
        THEN [status |-> ErrNoGraphics]
        ELSE LET graphics == Head(scan.graphics)
                 others == SelectSeq(scan.transfer, LAMBDA t : t # graphics)
             IN  IF others = <<>>
                 THEN [status |-> ErrNoTransfer]
                 ELSE [status |-> "ok", graphics |-> graphics,
                       transfer |-> Head(others)]

\* ------------------------------------------------- requested image count
\* vulkan.rs:411-412: 3.max(min_image_count).min(max_image_count) on u32
ImageCount(caps) ==
    Min(Max(DesiredImageCount, caps.min_image_count), caps.max_image_count)

\* ------------------------------------------------------------ Vulkan::new
\* A create call whose failure is swallowed: new goes on to the next step
\* without the object.
CreateStepUnchecked(here, fn, o, next) ==
    /\ pc = here
    /\ \E ok \in BOOLEAN :
          /\ Call(fn, ok)
          /\ pc' = next
          /\ UNCHANGED error
          /\ IF ok THEN Create(o) ELSE UNCHANGED handles

\* A function of new that issues one fallible create call.
CreateStep(here, fn, o, next) ==
    /\ pc = here
    /\ \E ok \in BOOLEAN :
          /\ Call(fn, ok)
          /\ IF ok
             THEN Create(o) /\ pc' = next /\ UNCHANGED error
             ELSE ReturnErr(ErrVk) /\ UNCHANGED handles

\* vulkan.rs:68, 164-199
CreateInstance ==
    /\ pc = "create_instance"
    /\ \E outcome \in {"no_extensions", "no_instance", "ok"} :
          /\ calls' = calls \o
                (IF outcome = "no_extensions"
                 THEN << [fn |-> "enumerate_required_extensions", ok |-> FALSE] >>
                 ELSE << [fn |-> "enumerate_required_extensions", ok |-> TRUE],
                         [fn |-> "create_instance", ok |-> outcome = "ok"] >>)
          /\ IF outcome = "ok"
             THEN Create(VkInst) /\ pc' = "create_debug_utils_and_messenger"
                  /\ UNCHANGED error
             ELSE ReturnErr(ErrVk) /\ UNCHANGED handles
    /\ UNCHANGED <<i, locals, pure>>

\* vulkan.rs:69-70, 214-236
CreateDebugUtilsAndMessenger ==
    /\ CreateStep("create_debug_utils_and_messenger",
                  "create_debug_utils_messenger", Messenger, "create_surface")
    /\ UNCHANGED <<i, locals, pure>>

\* new with the surface left for later, as main.rs:22-27 orders it: the
\* step is passed without a surface.
CreateSurfaceDeferred ==
    /\ pc = "create_surface"
    /\ pc' = "create_physical_device"
    /\ UNCHANGED <<i, handles, calls, error, locals, pure>>

\* vulkan.rs:72-73, 349-369
CreateSurface ==
    /\ CreateStep("create_surface", "create_surface", Surface,
                  "create_physical_device")
    /\ UNCHANGED <<i, locals, pure>>

\* vulkan.rs:238-243, main.rs:115-120: the result of create_physical_device
\* when the enumeration succeeded (`ok`) with `devices` devices.  phys_devs[0]
\* is an index out of bounds on an empty enumeration.
FirstPhysicalDevice(ok, devices) ==
    IF ~ok THEN [status |-> ErrVk]
    ELSE IF devices = 0
    THEN [status |-> "index out of bounds", enumerated |-> devices]
    ELSE [status |-> "ok", enumerated |-> devices, index |-> 0]

\* vulkan.rs:75, 238-243: phys_devs[0] panics on an empty enumeration.
CreatePhysicalDevice ==
    /\ pc = "create_physical_device"
    /\ \E ok \in BOOLEAN, devices \in 0..MaxDevices :
          LET r == FirstPhysicalDevice(ok, devices)
          IN  /\ Call("enumerate_physical_devices", ok)
              /\ physical_device' = r
              /\ IF r.status = "ok"
                 THEN pc' = "get_surface_extent" /\ UNCHANGED error
                 ELSE IF r.status = ErrVk THEN ReturnErr(ErrVk)
                 ELSE pc' = "panicked" /\ UNCHANGED error
    /\ UNCHANGED <<i, handles, extent, current_extent, queue_family_indices,
                   queue_infos, swap, rend, cmd, pure>>

\* vulkan.rs:77, 153-162
GetSurfaceExtent ==
    /\ pc = "get_surface_extent"
    /\ \E ok \in BOOLEAN, reported \in Extents :
          /\ Call("get_physical_device_surface_capabilities", ok)
          /\ IF ok
             THEN /\ current_extent' = reported
                  /\ extent' = reported
                  /\ pc' = "get_queue_family_indices"
                  /\ UNCHANGED error
             ELSE ReturnErr(ErrVk) /\ UNCHANGED <<extent, current_extent>>
    /\ UNCHANGED <<i, handles, physical_device, queue_family_indices,
                   queue_infos, swap, rend, cmd, pure>>

\* The surface-support queries of one run of the loop of vulkan.rs:256-263.
SupportCalls(props, examined) ==
    [k \in 1..examined |->
        [fn |-> "get_physical_device_surface_support",
         ok |-> props[k].surface_support # "error"]]

\* vulkan.rs:79-84, 245-299
SelectQueueFamilyIndices ==
    /\ pc = "get_queue_family_indices"
    /\ \E props \in QueueFamilyLists :
          LET r == GetQueueFamilyIndices(props)
          IN  /\ calls' = (calls \o
                    << [fn |-> "get_physical_device_queue_family_properties",
                        ok |-> TRUE] >>) \o SupportCalls(props, r.examined)
              /\ IF r.status = "ok"
                 THEN /\ queue_family_indices' =
                           [status |-> "ok", graphics |-> r.graphics,
                            transfer |-> r.transfer]
                      /\ pc' = "create_logcal_device"
                      /\ UNCHANGED error
                 ELSE ReturnErr(r.status) /\ UNCHANGED queue_family_indices
    /\ UNCHANGED <<i, handles, physical_device, extent, current_extent,
                   queue_infos, swap, rend,
                   cmd, pure>>

\* vulkan.rs:86-87, 301-329: one queue request per role, graphics then transfer.
CreateLogcalDevice ==
    /\ pc = "create_logcal_device"
    /\ queue_infos' = << queue_family_indices.graphics,
                         queue_family_indices.transfer >>
    /\ \E ok \in BOOLEAN :
          /\ Call("create_device", ok)
          /\ IF ok
             THEN Create(Device) /\ pc' = "get_queues" /\ UNCHANGED error
             ELSE ReturnErr(ErrVk) /\ UNCHANGED handles
    /\ UNCHANGED <<i, physical_device, extent, current_extent,
                   queue_family_indices, swap, rend,
                   cmd, pure>>

\* vulkan.rs:88, 331-347: get_device_queue cannot fail.
GetQueues ==
    /\ pc = "get_queues"
    /\ calls' = calls \o << [fn |-> "get_device_queue", ok |-> TRUE],
                            [fn |-> "get_device_queue", ok |-> TRUE] >>
    /\ pc' = "get_surface_present_modes"
    /\ UNCHANGED <<i, handles, error, locals, pure>>

\* get_surface_format with a guessed format in place of the error on an
\* empty list.
GetSurfaceFormatGuessed(ok, formats) ==
    IF ~ok THEN [status |-> ErrNoSurfaceFormats]
    ELSE IF formats = <<>> THEN [status |-> "ok", format |-> ImageViewFormat]
    ELSE [status |-> "ok", format |-> formats[1]]

\* vulkan.rs:371-385: the result of get_surface_format when the query
\* succeeded (`ok`) with the list `formats`.
GetSurfaceFormat(ok, formats) ==
    IF ~ok THEN [status |-> ErrNoSurfaceFormats]
    ELSE IF formats = <<>> THEN [status |-> ErrNoSurfaceFormat]
    ELSE [status |-> "ok", format |-> formats[1]]

\* The format list the surface reports: chosen by the driver at the first
\* query, the same list at every later query.
ReportedFormats ==
    IF surface_formats.reported THEN {surface_formats.formats}
    ELSE SeqsUpTo(Formats, 2)

\* The present-mode query with an empty list let through: the mode passed
\* to the swap chain is fixed anyway.
GetSurfacePresentModesOptional ==
    /\ pc = "get_surface_present_modes"
    /\ \E ok \in BOOLEAN, modes \in SeqsUpTo(PresentModes, 2) :
          /\ Call("get_physical_device_surface_present_modes", ok)
          /\ IF ~ok THEN ReturnErr(ErrVk) /\ UNCHANGED surface_present_mode
             ELSE /\ surface_present_mode' =
                        IF modes = <<>> THEN "" ELSE modes[1]
                  /\ pc' = "get_surface_format"
                  /\ UNCHANGED error
    /\ UNCHANGED <<i, handles, sel, surface_formats, surface_format,
                   swapchain_create_info, swapchain_images,
                   swapchain_image_views, image_view_infos, rend, cmd, pure>>

\* vulkan.rs:396-401
GetSurfacePresentModes ==
    /\ pc = "get_surface_present_modes"
    /\ \E ok \in BOOLEAN, modes \in SeqsUpTo(PresentModes, 2) :
          /\ Call("get_physical_device_surface_present_modes", ok)
          /\ IF ~ok THEN ReturnErr(ErrVk) /\ UNCHANGED surface_present_mode
             ELSE IF modes = <<>>
             THEN ReturnErr(ErrNoPresentMode) /\ UNCHANGED surface_present_mode
             ELSE /\ surface_present_mode' = modes[1]
                  /\ pc' = "get_surface_format"
                  /\ UNCHANGED error
    /\ UNCHANGED <<i, handles, sel, surface_formats, surface_format,
                   swapchain_create_info, swapchain_images,
                   swapchain_image_views, image_view_infos, rend, cmd, pure>>

\* vulkan.rs:403
SwapchainSurfaceFormat ==
    /\ pc = "get_surface_format"
    /\ \E ok \in BOOLEAN, formats \in ReportedFormats :
          LET r == GetSurfaceFormat(ok, formats)
          IN  /\ Call("get_physical_device_surface_formats", ok)
              /\ surface_formats' =
                    IF ok THEN [reported |-> TRUE, formats |-> formats]
                    ELSE surface_formats
              /\ IF r.status = "ok"
                 THEN /\ surface_format' = r.format
                      /\ pc' = "get_surface_capabilities"
                      /\ UNCHANGED error
                 ELSE ReturnErr(r.status) /\ UNCHANGED surface_format
    /\ UNCHANGED <<i, handles, sel, surface_present_mode,
                   swapchain_create_info, swapchain_images,
                   swapchain_image_views, image_view_infos, rend, cmd, pure>>

\* The create info without the second present_mode call of vulkan.rs:424:
\* the negotiated mode stands.
SwapchainCreateInfoNegotiated(caps) ==
    [status |-> "built",
     min_image_count |-> ImageCount(caps),
     present_mode |-> surface_present_mode,
     image_format |-> surface_format,
     image_extent |-> extent,
     queue_family_indices |-> << queue_family_indices.graphics >>]

\* vulkan.rs:408-424: present_mode is set twice, the second value stands.
SwapchainCreateInfo(caps) ==
    LET info == [status |-> "built",
                 min_image_count |-> ImageCount(caps),
                 present_mode |-> surface_present_mode,
                 image_format |-> surface_format,
                 image_extent |-> extent,
                 queue_family_indices |-> << queue_family_indices.graphics >>]
    IN  [info EXCEPT !.present_mode = "FIFO"]

\* The capabilities a driver reports: at least one image, and a maximum
\* that is 0 (no limit) or not below the minimum.
Capabilities(n) ==
    {c \in [min_image_count : 1..n, max_image_count : 0..n] :
        c.max_image_count = 0 \/ c.min_image_count <= c.max_image_count}

\* The second capabilities query taken as the source of the extent: the
\* extent in use follows the report.
GetSurfaceCapabilitiesRefreshed ==
    /\ pc = "get_surface_capabilities"
    /\ \E ok \in BOOLEAN, caps \in Capabilities(MaxImages),
          reported \in Extents :
          /\ Call("get_physical_device_surface_capabilities", ok)
          /\ IF ok
             THEN /\ current_extent' = reported
                  /\ extent' = reported
                  /\ swapchain_create_info' =
                        [SwapchainCreateInfo(caps) EXCEPT
                            !.image_extent = reported]
                  /\ pc' = "create_swapchain"
                  /\ UNCHANGED error
             ELSE ReturnErr(ErrVk)
                  /\ UNCHANGED <<extent, current_extent,
                                 swapchain_create_info>>
    /\ UNCHANGED <<i, handles, physical_device, queue_family_indices,
                   queue_infos, surface_present_mode, surface_formats,
                   surface_format, swapchain_images, swapchain_image_views,
                   image_view_infos, rend, cmd, pure>>

\* vulkan.rs:404-424: the surface may have been resized since the first
\* query; the report's current extent is not read, `extent` is the argument.
GetSurfaceCapabilities ==
    /\ pc = "get_surface_capabilities"
    /\ \E ok \in BOOLEAN, caps \in Capabilities(MaxImages),
          reported \in Extents :
          /\ Call("get_physical_device_surface_capabilities", ok)
          /\ IF ok
             THEN /\ current_extent' = reported
                  /\ swapchain_create_info' = SwapchainCreateInfo(caps)
                  /\ pc' = "create_swapchain"
                  /\ UNCHANGED error
             ELSE ReturnErr(ErrVk)
                  /\ UNCHANGED <<current_extent, swapchain_create_info>>
    /\ UNCHANGED <<i, handles, physical_device, extent, queue_family_indices,
                   queue_infos, surface_present_mode, surface_formats,
                   surface_format, swapchain_images, swapchain_image_views,
                   image_view_infos, rend, cmd, pure>>

\* vulkan.rs:425-426
CreateSwapchain ==
    /\ CreateStep("create_swapchain", "create_swapchain", Swapchain,
                  "get_swapchain_images")
    /\ UNCHANGED <<i, locals, pure>>

\* vulkan.rs:427-428: the swap chain holds at least the requested number
\* of images.
GetSwapchainImages ==
    /\ pc = "get_swapchain_images"
    /\ \E ok \in BOOLEAN,
          n \in Max(1, swapchain_create_info.min_image_count)..MaxImages :
          /\ Call("get_swapchain_images", ok)
          /\ IF ok
             THEN /\ swapchain_images' = n
                  /\ swapchain_image_views' = <<>>
                  /\ i' = 0
                  /\ pc' = "create_image_view"
                  /\ UNCHANGED error
             ELSE ReturnErr(ErrVk)
                  /\ UNCHANGED <<i, swapchain_images, swapchain_image_views>>
    /\ UNCHANGED <<handles, sel, surface_present_mode, surface_formats,
                   surface_format, swapchain_create_info, image_view_infos,
                   rend, cmd, pure>>

\* The loop over the images taken from the last image to the first.
CreateImageViewReversed ==
    /\ pc = "create_image_view"
    /\ i < swapchain_images
    /\ \E ok \in BOOLEAN :
          /\ Call("create_image_view", ok)
          /\ IF ok
             THEN /\ Create(ImageView(i + 1))
                  /\ swapchain_image_views' =
                        Append(swapchain_image_views, ImageView(i + 1))
                  /\ image_view_infos' =
                        Append(image_view_infos,
                               [image |-> swapchain_images - i,
                                format |-> ImageViewFormat])
                  /\ i' = i + 1
                  /\ pc' = IF i + 1 = swapchain_images
                           THEN "create_attachments" ELSE "create_image_view"
                  /\ UNCHANGED error
             ELSE ReturnErr(ErrVk)
                  /\ UNCHANGED <<i, handles, swapchain_image_views,
                                 image_view_infos>>
    /\ UNCHANGED <<sel, surface_present_mode, surface_formats, surface_format,
                   swapchain_create_info, swapchain_images, rend, cmd, pure>>

\* vulkan.rs:429-445: one iteration of the loop over the images; `?` leaves
\* the function with the views pushed so far still alive.
CreateImageView ==
    /\ pc = "create_image_view"
    /\ i < swapchain_images
    /\ \E ok \in BOOLEAN :
          /\ Call("create_image_view", ok)
          /\ IF ok
             THEN /\ Create(ImageView(i + 1))
                  /\ swapchain_image_views' =
                        Append(swapchain_image_views, ImageView(i + 1))
                  /\ image_view_infos' =
                        Append(image_view_infos,
                               [image |-> i + 1, format |-> ImageViewFormat])
                  /\ i' = i + 1
                  /\ pc' = IF i + 1 = swapchain_images
                           THEN "create_attachments" ELSE "create_image_view"
                  /\ UNCHANGED error
             ELSE ReturnErr(ErrVk)
                  /\ UNCHANGED <<i, handles, swapchain_image_views,
                                 image_view_infos>>
    /\ UNCHANGED <<sel, surface_present_mode, surface_formats, surface_format,
                   swapchain_create_info, swapchain_images, rend, cmd, pure>>

\* vulkan.rs:475, 448-467
CreateAttachments ==
    /\ pc = "create_attachments"
    /\ \E ok \in BOOLEAN, formats \in ReportedFormats :
          LET r == GetSurfaceFormat(ok, formats)
          IN  /\ Call("get_physical_device_surface_formats", ok)
              /\ IF r.status = "ok"
                 THEN /\ attachment_format' = r.format
                      /\ pc' = "create_render_pass"
                      /\ UNCHANGED error
                 ELSE ReturnErr(r.status) /\ UNCHANGED attachment_format
    /\ UNCHANGED <<i, handles, sel, swap, pipeline_extent, framebuffers,
                   framebuffer_infos, cmd, pure>>

\* vulkan.rs:101-106, 476-499
CreateRenderPass ==
    /\ CreateStep("create_render_pass", "create_render_pass", RenderPass,
                  "create_vertex_shader_module")
    /\ UNCHANGED <<i, locals, pure>>

\* vulkan.rs:537-540
CreateVertexShaderModule ==
    /\ CreateStep("create_vertex_shader_module", "create_shader_module",
                  VertexShader, "create_fragment_shader_module")
    /\ UNCHANGED <<i, locals, pure>>

\* vulkan.rs:541-544
CreateFragmentShaderModule ==
    /\ CreateStep("create_fragment_shader_module", "create_shader_module",
                  FragmentShader, "create_pipeline_layout")
    /\ UNCHANGED <<i, locals, pure>>

\* vulkan.rs:604-606
CreatePipelineLayout ==
    /\ CreateStep("create_pipeline_layout", "create_pipeline_layout",
                  PipelineLayout, "create_graphics_pipelines")
    /\ UNCHANGED <<i, locals, pure>>

\* vulkan.rs:561-572, 608-631: viewport and scissor span `extent`; a
\* rejected pipeline panics (`expect`).
CreateGraphicsPipelines ==
    /\ pc = "create_graphics_pipelines"
    /\ pipeline_extent' = extent
    /\ \E ok \in BOOLEAN :
          /\ Call("create_graphics_pipelines", ok)
          /\ IF ok
             THEN Create(Pipeline) /\ pc' = "create_framebuffer" /\ i' = 0
             ELSE pc' = "panicked" /\ UNCHANGED <<i, handles>>
    /\ UNCHANGED <<error, sel, swap, attachment_format, framebuffers,
                   framebuffer_infos, cmd, pure>>

\* create_framebuffers with the two dimensions of the extent exchanged.
CreateFramebufferTransposed ==
    /\ pc = "create_framebuffer"
    /\ i < Len(swapchain_image_views)
    /\ \E ok \in BOOLEAN :
          /\ Call("create_framebuffer", ok)
          /\ IF ok
             THEN /\ Create(Framebuffer(i + 1))
                  /\ framebuffers' = Append(framebuffers, Framebuffer(i + 1))
                  /\ framebuffer_infos' =
                        Append(framebuffer_infos,
                               [render_pass |-> RenderPass,
                                attachments |-> << swapchain_image_views[i + 1] >>,
                                width |-> extent.height,
                                height |-> extent.width,
                                layers |-> 1])
                  /\ i' = i + 1
                  /\ pc' = IF i + 1 = Len(swapchain_image_views)
                           THEN "create_command_pools" ELSE "create_framebuffer"
                  /\ UNCHANGED error
             ELSE ReturnErr(ErrVk)
                  /\ UNCHANGED <<i, handles, framebuffers, framebuffer_infos>>
    /\ UNCHANGED <<sel, swap, attachment_format, pipeline_extent, cmd, pure>>

\* vulkan.rs:111-116, 502-522: one iteration of the loop over the image
\* views; `?` leaves the function with the framebuffers pushed so far alive.
CreateFramebuffer ==
    /\ pc = "create_framebuffer"
    /\ i < Len(swapchain_image_views)
    /\ \E ok \in BOOLEAN :
          /\ Call("create_framebuffer", ok)
          /\ IF ok
             THEN /\ Create(Framebuffer(i + 1))
                  /\ framebuffers' = Append(framebuffers, Framebuffer(i + 1))
                  /\ framebuffer_infos' =
                        Append(framebuffer_infos,
                               [render_pass |-> RenderPass,
                                attachments |-> << swapchain_image_views[i + 1] >>,
                                width |-> extent.width,
                                height |-> extent.height,
                                layers |-> 1])
                  /\ i' = i + 1
                  /\ pc' = IF i + 1 = Len(swapchain_image_views)
                           THEN "create_command_pools" ELSE "create_framebuffer"
                  /\ UNCHANGED error
             ELSE ReturnErr(ErrVk)
                  /\ UNCHANGED <<i, handles, framebuffers, framebuffer_infos>>
    /\ UNCHANGED <<sel, swap, attachment_format, pipeline_extent, cmd, pure>>

\* vulkan.rs:118, 633-652: the graphics pool, then the transfer pool.
CreateCommandPools ==
    /\ pc = "create_command_pools"
    /\ \E outcome \in {"no_graphics_pool", "no_transfer_pool", "ok"} :
          /\ calls' = calls \o
                (IF outcome = "no_graphics_pool"
                 THEN << [fn |-> "create_command_pool", ok |-> FALSE] >>
                 ELSE << [fn |-> "create_command_pool", ok |-> TRUE],
                         [fn |-> "create_command_pool", ok |-> outcome = "ok"] >>)
          /\ live' = live \cup
                (CASE outcome = "no_graphics_pool" -> {}
                   [] outcome = "no_transfer_pool" -> {PoolGraphics}
                   [] outcome = "ok" -> {PoolGraphics, PoolTransfer})
          /\ created' = created \o
                (CASE outcome = "no_graphics_pool" -> <<>>
                   [] outcome = "no_transfer_pool" -> << PoolGraphics >>
                   [] outcome = "ok" -> << PoolGraphics, PoolTransfer >>)
          /\ IF outcome = "ok"
             THEN pc' = "create_commandbuffers" /\ UNCHANGED error
             ELSE ReturnErr(ErrVk)
    /\ UNCHANGED <<i, destroyed, locals, pure>>

\* create_commandbuffers asked for one buffer more than there are
\* framebuffers.
CreateCommandbuffersOneMore ==
    /\ pc = "create_commandbuffers"
    /\ \E ok \in BOOLEAN :
          LET amount == Len(framebuffers) + 1
              buffers == [k \in 1..amount |-> CommandBuffer(k)]
          IN  /\ Call("allocate_command_buffers", ok)
              /\ IF ok
                 THEN /\ commandbuffers' = buffers
                      /\ live' = live \cup Range(buffers)
                      /\ created' = created \o buffers
                      /\ i' = 0
                      /\ pc' = IF amount = 0 THEN "constructed"
                               ELSE "begin_command_buffer"
                      /\ UNCHANGED <<error, destroyed>>
                 ELSE ReturnErr(ErrVk)
                      /\ UNCHANGED <<i, handles, commandbuffers>>
    /\ UNCHANGED <<sel, swap, rend, recorded, pure>>

\* vulkan.rs:120-121, 654-663: `amount` buffers from the graphics pool.
CreateCommandbuffers ==
    /\ pc = "create_commandbuffers"
    /\ \E ok \in BOOLEAN :
          LET amount == Len(framebuffers)
              buffers == [k \in 1..amount |-> CommandBuffer(k)]
          IN  /\ Call("allocate_command_buffers", ok)
              /\ IF ok
                 THEN /\ commandbuffers' = buffers
                      /\ live' = live \cup Range(buffers)
                      /\ created' = created \o buffers
                      /\ i' = 0
                      /\ pc' = IF amount = 0 THEN "constructed"
                               ELSE "begin_command_buffer"
                      /\ UNCHANGED <<error, destroyed>>
                 ELSE ReturnErr(ErrVk)
                      /\ UNCHANGED <<i, handles, commandbuffers>>
    /\ UNCHANGED <<sel, swap, rend, recorded, pure>>

\* vulkan.rs:673-677: begin recording buffer i.
BeginCommandBuffer ==
    /\ pc = "begin_command_buffer"
    /\ i < Len(commandbuffers)
    /\ \E ok \in BOOLEAN :
          /\ Call("begin_command_buffer", ok)
          /\ IF ok
             THEN /\ recorded' = Append(recorded, << [cmd |-> "begin"] >>)
                  /\ pc' = "record_command_buffer"
                  /\ UNCHANGED error
             ELSE ReturnErr(ErrVk) /\ UNCHANGED recorded
    /\ UNCHANGED <<i, handles, sel, swap, rend, commandbuffers, pure>>

\* The commands with every render pass begun on the first framebuffer.
RenderCommandsFirstFramebuffer(k) ==
    << [cmd |-> "begin_render_pass", framebuffer |-> framebuffers[1],
        render_area |-> extent],
       [cmd |-> "bind_pipeline", pipeline |-> Pipeline],
       [cmd |-> "draw", vertex_count |-> 1, instance_count |-> 1,
        first_vertex |-> 0, first_instance |-> 0],
       [cmd |-> "end_render_pass"] >>

\* vulkan.rs:683-703: the commands recorded between begin and end.
RenderCommands(k) ==
    << [cmd |-> "begin_render_pass", framebuffer |-> framebuffers[k],
        render_area |-> extent],
       [cmd |-> "bind_pipeline", pipeline |-> Pipeline],
       [cmd |-> "draw", vertex_count |-> 1, instance_count |-> 1,
        first_vertex |-> 0, first_instance |-> 0],
       [cmd |-> "end_render_pass"] >>

\* vulkan.rs:678-706: framebuffers[i] panics when out of range; the
\* commands are recorded and the recording of buffer i is ended.
RecordCommandBuffer ==
    /\ pc = "record_command_buffer"
    /\ IF i + 1 > Len(framebuffers)
       THEN /\ pc' = "panicked"
            /\ UNCHANGED <<i, calls, error, recorded>>
       ELSE \E ok \in BOOLEAN :
            /\ calls' = calls \o
                  << [fn |-> "cmd_begin_render_pass", ok |-> TRUE],
                     [fn |-> "cmd_bind_pipeline", ok |-> TRUE],
                     [fn |-> "cmd_draw", ok |-> TRUE],
                     [fn |-> "cmd_end_render_pass", ok |-> TRUE],
                     [fn |-> "end_command_buffer", ok |-> ok] >>
            /\ recorded' =
                  [recorded EXCEPT ![i + 1] =
                      (@ \o RenderCommands(i + 1)) \o
                      (IF ok THEN << [cmd |-> "end"] >> ELSE <<>>)]
            /\ IF ok
               THEN /\ i' = i + 1
                    /\ pc' = IF i + 1 = Len(commandbuffers)
                             THEN "constructed" ELSE "begin_command_buffer"
                    /\ UNCHANGED error
               ELSE ReturnErr(ErrVk) /\ UNCHANGED i
    /\ UNCHANGED <<handles, sel, swap, rend, commandbuffers, pure>>

\* ---------------------------------------------------------- Drop for Vulkan
\* One destroy call of drop.
DestroyStep(here, fn, o, next) ==
    /\ pc = here
    /\ Call(fn, TRUE)
    /\ Destroy(<< o >>)
    /\ pc' = next

\* Variant of DestroyCommandPools in which a destroyed pool keeps the
\* command buffers allocated from it.
DestroyCommandPoolsOnly ==
    /\ pc = "constructed"
    /\ calls' = calls \o << [fn |-> "destroy_command_pool", ok |-> TRUE],
                            [fn |-> "destroy_command_pool", ok |-> TRUE] >>
    /\ Destroy(<< PoolGraphics, PoolTransfer >>)
    /\ i' = 0
    /\ pc' = IF framebuffers = <<>> THEN "destroy_image_view"
             ELSE "destroy_framebuffer"
    /\ UNCHANGED <<error, locals, pure>>

\* vulkan.rs:714, 53-60: new has returned Ok(Self) and the context is
\* dropped.  Destroying a pool frees the command buffers allocated from it.
DestroyCommandPools ==
    /\ pc = "constructed"
    /\ calls' = calls \o << [fn |-> "destroy_command_pool", ok |-> TRUE],
                            [fn |-> "destroy_command_pool", ok |-> TRUE] >>
    /\ Destroy(commandbuffers \o << PoolGraphics, PoolTransfer >>)
    /\ i' = 0
    /\ pc' = IF framebuffers = <<>> THEN "destroy_image_view"
             ELSE "destroy_framebuffer"
    /\ UNCHANGED <<error, locals, pure>>

\* vulkan.rs:715-717: one iteration over self.framebuffers.
DestroyFramebuffer ==
    /\ pc = "destroy_framebuffer"
    /\ i < Len(framebuffers)
    /\ Call("destroy_framebuffer", TRUE)
    /\ Destroy(<< framebuffers[i + 1] >>)
    /\ IF i + 1 = Len(framebuffers)
       THEN i' = 0 /\ pc' = "destroy_image_view"
       ELSE i' = i + 1 /\ pc' = "destroy_framebuffer"
    /\ UNCHANGED <<error, locals, pure>>

\* vulkan.rs:718-721: one iteration over the views taken out of
\* self.swapchain_image_views; the field is empty afterwards.
DestroyImageView ==
    /\ pc = "destroy_image_view"
    /\ i < Len(swapchain_image_views)
    /\ Call("destroy_image_view", TRUE)
    /\ Destroy(<< swapchain_image_views[i + 1] >>)
    /\ IF i + 1 = Len(swapchain_image_views)
       THEN /\ i' = 0
            /\ swapchain_image_views' = <<>>
            /\ pc' = "destroy_swapchain"
       ELSE /\ i' = i + 1
            /\ pc' = "destroy_image_view"
            /\ UNCHANGED swapchain_image_views
    /\ UNCHANGED <<error, sel, surface_present_mode, surface_formats,
                   surface_format, swapchain_create_info, swapchain_images,
                   image_view_infos, rend, cmd, pure>>

\* vulkan.rs:722-723
DestroySwapchain ==
    /\ DestroyStep("destroy_swapchain", "destroy_swapchain", Swapchain,
                   "destroy_surface")
    /\ UNCHANGED <<i, error, locals, pure>>

\* vulkan.rs:724
DestroySurface ==
    /\ DestroyStep("destroy_surface", "destroy_surface", Surface,
                   "destroy_render_pass")
    /\ UNCHANGED <<i, error, locals, pure>>

\* vulkan.rs:725-726
DestroyRenderPass ==
    /\ DestroyStep("destroy_render_pass", "destroy_render_pass", RenderPass,
                   "destroy_vertex_shader_module")
    /\ UNCHANGED <<i, error, locals, pure>>

\* vulkan.rs:727-728
DestroyVertexShaderModule ==
    /\ DestroyStep("destroy_vertex_shader_module", "destroy_shader_module",
                   VertexShader, "destroy_fragment_shader_module")
    /\ UNCHANGED <<i, error, locals, pure>>

\* vulkan.rs:729-730
DestroyFragmentShaderModule ==
    /\ DestroyStep("destroy_fragment_shader_module", "destroy_shader_module",
                   FragmentShader, "destroy_pipeline_layout")
    /\ UNCHANGED <<i, error, locals, pure>>

\* vulkan.rs:731-732
DestroyPipelineLayout ==
    /\ DestroyStep("destroy_pipeline_layout", "destroy_pipeline_layout",
                   PipelineLayout, "destroy_pipeline")
    /\ UNCHANGED <<i, error, locals, pure>>

\* vulkan.rs:733
DestroyPipeline ==
    /\ DestroyStep("destroy_pipeline", "destroy_pipeline", Pipeline,
                   "destroy_device")
    /\ UNCHANGED <<i, error, locals, pure>>

\* Variant of DestroyDevice that goes on to the instance directly.
DestroyDeviceThenInstance ==
    /\ DestroyStep("destroy_device", "destroy_device", Device,
                   "destroy_instance")
    /\ UNCHANGED <<i, error, locals, pure>>

\* vulkan.rs:734
DestroyDevice ==
    /\ DestroyStep("destroy_device", "destroy_device", Device,
                   "destroy_debug_utils_messenger")
    /\ UNCHANGED <<i, error, locals, pure>>

\* vulkan.rs:735-736
DestroyDebugUtilsMessenger ==
    /\ DestroyStep("destroy_debug_utils_messenger",
                   "destroy_debug_utils_messenger", Messenger,
                   "destroy_instance")
    /\ UNCHANGED <<i, error, locals, pure>>

\* vulkan.rs:737
DestroyInstance ==
    /\ DestroyStep("destroy_instance", "destroy_instance", VkInst, "dropped")
    /\ UNCHANGED <<i, error, locals, pure>>

New ==
    \/ CreateInstance
    \/ CreateDebugUtilsAndMessenger
    \/ CreateSurface
    \/ CreatePhysicalDevice
    \/ GetSurfaceExtent
    \/ SelectQueueFamilyIndices
    \/ CreateLogcalDevice
    \/ GetQueues
    \/ GetSurfacePresentModes
    \/ SwapchainSurfaceFormat
    \/ GetSurfaceCapabilities
    \/ CreateSwapchain
    \/ GetSwapchainImages
    \/ CreateImageView
    \/ CreateAttachments
    \/ CreateRenderPass
    \/ CreateVertexShaderModule
    \/ CreateFragmentShaderModule
    \/ CreatePipelineLayout
    \/ CreateGraphicsPipelines
    \/ CreateFramebuffer
    \/ CreateCommandPools
    \/ CreateCommandbuffers
    \/ BeginCommandBuffer
    \/ RecordCommandBuffer

Drop ==
    \/ DestroyCommandPools
    \/ DestroyFramebuffer
    \/ DestroyImageView
    \/ DestroySwapchain
    \/ DestroySurface
    \/ DestroyRenderPass
    \/ DestroyVertexShaderModule
    \/ DestroyFragmentShaderModule
    \/ DestroyPipelineLayout
    \/ DestroyPipeline
    \/ DestroyDevice
    \/ DestroyDebugUtilsMessenger
    \/ DestroyInstance

Next == New \/ Drop

Spec == Init /\ [][Next]_vars

\* ------------------------------------------------------------ main.rs: main
\* main is entered with nothing created.
InitMain ==
    /\ pc = "main_create_window"
    /\ BootIdle
    /\ PureIdle

\* main.rs:16, 216-221
MainCreateWindow ==
    /\ pc = "main_create_window"
    /\ \E outcome \in {"no_event_loop", "no_window", "ok"} :
          /\ calls' = calls \o
                (IF outcome = "no_event_loop"
                 THEN << [fn |-> "event_loop_new", ok |-> FALSE] >>
                 ELSE << [fn |-> "event_loop_new", ok |-> TRUE],
                         [fn |-> "create_window", ok |-> outcome = "ok"] >>)
          /\ IF outcome = "ok"
             THEN pc' = "main_create_instance" /\ UNCHANGED error
             ELSE ReturnErr("winit error")
    /\ UNCHANGED <<i, handles, locals, pure>>

\* main.rs:19, 41-76
MainCreateInstance ==
    /\ pc = "main_create_instance"
    /\ \E outcome \in {"no_display_handle", "no_extensions", "no_instance",
                         "ok"} :
          /\ calls' = calls \o
                (CASE outcome = "no_display_handle" ->
                        << [fn |-> "display_handle", ok |-> FALSE] >>
                   [] outcome = "no_extensions" ->
                        << [fn |-> "display_handle", ok |-> TRUE],
                           [fn |-> "enumerate_required_extensions",
                            ok |-> FALSE] >>
                   [] OTHER ->
                        << [fn |-> "display_handle", ok |-> TRUE],
                           [fn |-> "enumerate_required_extensions",
                            ok |-> TRUE],
                           [fn |-> "create_instance",
                            ok |-> outcome = "ok"] >>)
          /\ IF outcome = "ok"
             THEN Create(VkInst)
                  /\ pc' = "main_create_debug_utils_and_messenger"
                  /\ UNCHANGED error
             ELSE ReturnErr(ErrVk) /\ UNCHANGED handles
    /\ UNCHANGED <<i, locals, pure>>

\* main.rs:20, 91-113
MainCreateDebugUtilsAndMessenger ==
    /\ CreateStep("main_create_debug_utils_and_messenger",
                  "create_debug_utils_messenger", Messenger,
                  "main_create_physical_device")
    /\ UNCHANGED <<i, locals, pure>>

\* main.rs:22, 115-120: phys_devs[0] panics on an empty enumeration.
MainCreatePhysicalDevice ==
    /\ pc = "main_create_physical_device"
    /\ \E ok \in BOOLEAN, devices \in 0..MaxDevices :
          LET r == FirstPhysicalDevice(ok, devices)
          IN  /\ Call("enumerate_physical_devices", ok)
              /\ physical_device' = r
              /\ IF r.status = "ok"
                 THEN pc' = "main_get_queue_family_indices" /\ UNCHANGED error
                 ELSE IF r.status = ErrVk THEN ReturnErr(ErrVk)
                 ELSE pc' = "panicked" /\ UNCHANGED error
    /\ UNCHANGED <<i, handles, extent, current_extent, queue_family_indices,
                   queue_infos, swap, rend, cmd, pure>>

\* main.rs:23, 127-167: the list the driver reported is kept with the result.
MainSelectQueueFamilyIndices ==
    /\ pc = "main_get_queue_family_indices"
    /\ \E props \in QueueFamilyLists :
          LET r == MainGetQueueFamilyIndices(props)
          IN  /\ Call("get_physical_device_queue_family_properties", TRUE)
              /\ queue_family_properties' = props
              /\ IF r.status = "ok"
                 THEN /\ queue_family_indices' = r
                      /\ pc' = "main_create_logcal_device"
                      /\ UNCHANGED error
                 ELSE ReturnErr(r.status) /\ UNCHANGED queue_family_indices
    /\ UNCHANGED <<i, handles, physical_device, extent, current_extent,
                   queue_infos, swap, rend,
                   cmd,
                   qf_result, qf_result_main, surface_capabilities,
                   min_image_count, fpc>>

\* main.rs:24, 169-194
MainCreateLogcalDevice ==
    /\ pc = "main_create_logcal_device"
    /\ queue_infos' = << queue_family_indices.graphics,
                         queue_family_indices.transfer >>
    /\ \E ok \in BOOLEAN :
          /\ Call("create_device", ok)
          /\ IF ok
             THEN Create(Device) /\ pc' = "main_get_queues" /\ UNCHANGED error
             ELSE ReturnErr(ErrVk) /\ UNCHANGED handles
    /\ UNCHANGED <<i, physical_device, extent, current_extent,
                   queue_family_indices, swap, rend,
                   cmd, pure>>

\* main.rs:25, 201-214
MainGetQueues ==
    /\ pc = "main_get_queues"
    /\ calls' = calls \o << [fn |-> "get_device_queue", ok |-> TRUE],
                            [fn |-> "get_device_queue", ok |-> TRUE] >>
    /\ pc' = "main_create_surface"
    /\ UNCHANGED <<i, handles, error, locals, pure>>

\* Variant of MainCreateSurface that unwinds on failure: the objects
\* created so far are destroyed before the error is returned.
MainCreateSurfaceUnwinding ==
    /\ pc = "main_create_surface"
    /\ \E ok \in BOOLEAN :
          /\ calls' = calls \o
                << [fn |-> "display_handle", ok |-> TRUE],
                   [fn |-> "window_handle", ok |-> TRUE],
                   [fn |-> "create_surface", ok |-> ok] >>
          /\ IF ok
             THEN Create(Surface) /\ pc' = "main_destroy_surface"
                  /\ UNCHANGED error
             ELSE ReturnErr(ErrVk) /\ Destroy(<< Device, Messenger, VkInst >>)
    /\ UNCHANGED <<i, locals, pure>>

\* main.rs:27, 223-238
MainCreateSurface ==
    /\ pc = "main_create_surface"
    /\ \E outcome \in {"no_display_handle", "no_window_handle", "no_surface",
                         "ok"} :
          /\ calls' = calls \o
                (CASE outcome = "no_display_handle" ->
                        << [fn |-> "display_handle", ok |-> FALSE] >>
                   [] outcome = "no_window_handle" ->
                        << [fn |-> "display_handle", ok |-> TRUE],
                           [fn |-> "window_handle", ok |-> FALSE] >>
                   [] OTHER ->
                        << [fn |-> "display_handle", ok |-> TRUE],
                           [fn |-> "window_handle", ok |-> TRUE],
                           [fn |-> "create_surface",
                            ok |-> outcome = "ok"] >>)
          /\ IF outcome = "ok"
             THEN Create(Surface) /\ pc' = "main_destroy_surface"
                  /\ UNCHANGED error
             ELSE ReturnErr(ErrVk) /\ UNCHANGED handles
    /\ UNCHANGED <<i, locals, pure>>

\* main.rs:32
MainDestroySurface ==
    /\ DestroyStep("main_destroy_surface", "destroy_surface", Surface,
                   "main_destroy_device")
    /\ UNCHANGED <<i, error, locals, pure>>

\* main.rs:33
MainDestroyDevice ==
    /\ DestroyStep("main_destroy_device", "destroy_device", Device,
                   "main_destroy_debug_utils_messenger")
    /\ UNCHANGED <<i, error, locals, pure>>

\* main.rs:34
MainDestroyDebugUtilsMessenger ==
    /\ DestroyStep("main_destroy_debug_utils_messenger",
                   "destroy_debug_utils_messenger", Messenger,
                   "main_destroy_instance")
    /\ UNCHANGED <<i, error, locals, pure>>

\* main.rs:35-38: main returns Ok(()).
MainDestroyInstance ==
    /\ DestroyStep("main_destroy_instance", "destroy_instance", VkInst,
                   "main_done")
    /\ UNCHANGED <<i, error, locals, pure>>

NextMain ==
    \/ MainCreateWindow
    \/ MainCreateInstance
    \/ MainCreateDebugUtilsAndMessenger
    \/ MainCreatePhysicalDevice
    \/ MainSelectQueueFamilyIndices
    \/ MainCreateLogcalDevice
    \/ MainGetQueues
    \/ MainCreateSurface
    \/ MainDestroySurface
    \/ MainDestroyDevice
    \/ MainDestroyDebugUtilsMessenger
    \/ MainDestroyInstance

SpecMain == InitMain /\ [][NextMain]_vars

\* Both programs of the repository: a run is a run of Vulkan::new and drop,
\* or a run of main.
InitBoth == Init \/ InitMain

NextBoth == Next \/ NextMain

SpecBoth == InitBoth /\ [][NextBoth]_vars

\* ------------------------------------------ SpecQF: queue-family selection
InitQF ==
    /\ pc = "idle"
    /\ BootIdle
    /\ queue_family_properties \in QueueFamilyLists
    /\ qf_result = NoIndices
    /\ qf_result_main = NoIndices
    /\ surface_capabilities = NoCapabilities
    /\ min_image_count = 0
    /\ fpc = "input"

\* vulkan.rs:245-299 applied to the list
CallGetQueueFamilyIndices ==
    /\ fpc \in {"input", "main_done"}
    /\ qf_result' = GetQueueFamilyIndices(queue_family_properties)
    /\ fpc' = IF fpc = "input" THEN "vulkan_done" ELSE "done"
    /\ UNCHANGED <<pc, i, handles, calls, error, locals,
                   queue_family_properties, qf_result_main,
                   surface_capabilities, min_image_count>>

\* main.rs:127-167 applied to the list
CallMainGetQueueFamilyIndices ==
    /\ fpc \in {"input", "vulkan_done"}
    /\ qf_result_main' = MainGetQueueFamilyIndices(queue_family_properties)
    /\ fpc' = IF fpc = "input" THEN "main_done" ELSE "done"
    /\ UNCHANGED <<pc, i, handles, calls, error, locals,
                   queue_family_properties, qf_result,
                   surface_capabilities, min_image_count>>

NextQF == CallGetQueueFamilyIndices \/ CallMainGetQueueFamilyIndices

SpecQF == InitQF /\ [][NextQF]_vars

\* --------------------------------------------- SpecImg: requested image count
InitImg ==
    /\ pc = "idle"
    /\ BootIdle
    /\ queue_family_properties = <<>>
    /\ qf_result = NoIndices
    /\ qf_result_main = NoIndices
    /\ surface_capabilities \in Capabilities(MaxCount)
    /\ min_image_count = 0
    /\ fpc = "input"

\* vulkan.rs:410-413 applied to the capabilities
CallImageCount ==
    /\ fpc = "input"
    /\ min_image_count' = ImageCount(surface_capabilities)
    /\ fpc' = "done"
    /\ UNCHANGED <<pc, i, handles, calls, error, locals,
                   queue_family_properties, qf_result, qf_result_main,
                   surface_capabilities>>

NextImg == CallImageCount

SpecImg == InitImg /\ [][NextImg]_vars

\* ==================================================================== claims
RECURSIVE Collapse(_)
\* s without the consecutive repetitions
Collapse(s) ==
    IF Len(s) <= 1 THEN s
    ELSE IF s[1] = s[2] THEN Collapse(Tail(s))
    ELSE << s[1] >> \o Collapse(Tail(s))

IsPrefix(s, t) ==
    Len(s) <= Len(t) /\ \A k \in DOMAIN s : s[k] = t[k]

LastCallFailed(fn) ==
    calls # <<>> /\ calls[Len(calls)] = [fn |-> fn, ok |-> FALSE]

Issued(fn) == \E k \in DOMAIN calls : calls[k].fn = fn

LiveOfKind(kind) == {o \in live : o.kind = kind}

\* The stage of the bootstrap sequence an object belongs to.
StageOf(o) ==
    CASE o.kind \in {"commandbuffer", "command_pool_graphics",
                     "command_pool_transfer"} -> "command buffers and pools"
      [] o.kind \in {"vertex_shader_module", "fragment_shader_module"} ->
            "shader modules"
      [] OTHER -> o.kind

Stages(objects) == Collapse([k \in DOMAIN objects |-> StageOf(objects[k])])

\* C1: while the context is dropped, no object has been destroyed while an
\* object that depends on it is still alive: every live object's
\* dependencies are alive.  The code destroys the render pass, the shader
\* modules and the pipeline layout before the pipeline.
C1_TeardownOrdering ==
    destroyed # <<>> => \A o \in live : Parents(o) \subseteq live

\* C2: when new returns an error, every object created by the earlier steps
\* has been destroyed: no object is alive.  The code returns with `?` and
\* destroys nothing.
C2_AllOrNothing ==
    pc = "failed" => live = {}

\* C3: when the creation of the k-th image view (k >= 2) fails, the k-1
\* views created before it are destroyed by the time the error is returned.
C3_ImageViewsUnwound ==
    (pc = "failed" /\ LastCallFailed("create_image_view") /\ i >= 1)
        => LiveOfKind("image_view") = {}

\* C4: when the creation of a framebuffer fails, no framebuffer created by
\* the failing create_framebuffers is alive when the error is returned.
C4_FramebuffersUnwound ==
    (pc = "failed" /\ LastCallFailed("create_framebuffer"))
        => LiveOfKind("framebuffer") = {}

\* C8: the sequence of destructions issued by drop is the exact reverse of
\* the sequence of constructions of new, stage by stage (command
\* buffers/pools, framebuffers, pipeline, pipeline layout, shader modules,
\* render pass, image views, swap chain, logical device, surface, debug
\* messenger, instance).
C8_ExactReverse ==
    pc = "dropped" => Stages(destroyed) = Reverse(Stages(created))

\* The graphics-eligible and transfer-eligible families as the
\* specification words them.
C5_Graphics(props) ==
    {k \in DOMAIN props : /\ props[k].queue_count >= 1
                          /\ props[k].graphics = TRUE
                          /\ props[k].surface_support = "true"}

C5_Transfer(props) ==
    {k \in DOMAIN props : props[k].queue_count >= 1 /\ props[k].transfer = TRUE}

Lowest(S) == CHOOSE k \in S : \A m \in S : k <= m

C5_Selected(props, r) ==
    (C5_Graphics(props) # {} /\ C5_Transfer(props) # {})
        => /\ r.status = "ok"
           /\ r.graphics = Lowest(C5_Graphics(props)) - 1
           /\ r.transfer = Lowest(C5_Transfer(props)) - 1

VulkanVariantDone == fpc \in {"vulkan_done", "done"}
MainVariantDone == fpc \in {"main_done", "done"}

\* C5 as stated: for every queue-family list the lowest eligible index of
\* each role is returned, the no-graphics-family error when no family is
\* graphics-eligible and the no-transfer-family error when no family is
\* transfer-eligible.
C5_AsStated ==
    VulkanVariantDone =>
        /\ C5_Selected(queue_family_properties, qf_result)
        /\ C5_Graphics(queue_family_properties) = {}
              => qf_result.status = ErrNoGraphics
        /\ C5_Transfer(queue_family_properties) = {}
              => qf_result.status = ErrNoTransfer

\* C5 amended: when every surface-support query succeeds, the lowest
\* eligible index of each role is returned, each chosen independently; the
\* no-graphics-family error is returned when no family is graphics-eligible,
\* and the no-transfer-family error when some family is graphics-eligible
\* and none is transfer-eligible.
C5_FirstEligible ==
    (VulkanVariantDone /\ \A k \in DOMAIN queue_family_properties :
                            queue_family_properties[k].surface_support # "error")
    =>  /\ C5_Selected(queue_family_properties, qf_result)
        /\ C5_Graphics(queue_family_properties) = {}
              => qf_result.status = ErrNoGraphics
        /\ (C5_Graphics(queue_family_properties) # {}
              /\ C5_Transfer(queue_family_properties) = {})
              => qf_result.status = ErrNoTransfer

\* C5 witness: family 0 graphics with surface support, family 1 transfer
\* only, selected as graphics 0 and transfer 1.
C5_Witness ==
    /\ VulkanVariantDone
    /\ queue_family_properties =
          << [queue_count |-> 1, graphics |-> TRUE, transfer |-> FALSE,
              surface_support |-> "true"],
             [queue_count |-> 1, graphics |-> FALSE, transfer |-> TRUE,
              surface_support |-> "false"] >>
    /\ qf_result.status = "ok"
    /\ qf_result.graphics = 0
    /\ qf_result.transfer = 1

\* The lists in which the only transfer-eligible family is also the first
\* graphics-eligible family (and every surface-support query succeeds).
C6_OneCombinedFamily(props) ==
    /\ \A k \in DOMAIN props : props[k].surface_support # "error"
    /\ C5_Graphics(props) # {}
    /\ C5_Transfer(props) = {Lowest(C5_Graphics(props))}
    /\ \A k \in DOMAIN props :
          (props[k].queue_count >= 1 /\ props[k].graphics)
              => k >= Lowest(C5_Graphics(props))

\* C6: for a list in which the only transfer-eligible family is also the
\* first graphics-eligible family, each variant of get_queue_family_indices
\* (vulkan.rs and main.rs) succeeds and returns the same index for both
\* roles.  The variant of main.rs requires the indices to differ.
C6_IndicesMayCoincide ==
    (fpc = "done" /\ C6_OneCombinedFamily(queue_family_properties))
    =>  /\ qf_result.status = "ok"
        /\ qf_result.graphics = qf_result.transfer
        /\ qf_result_main.status = "ok"
        /\ qf_result_main.graphics = qf_result_main.transfer

Clamp(x, lo, hi) == IF x < lo THEN lo ELSE IF x > hi THEN hi ELSE x

\* C7: with min_image_count <= max_image_count the requested image count
\* is clamp(3, min, max), and with an unbounded maximum (reported as 0) it
\* is max(3, min).  The code takes the minimum with 0 and requests 0.
C7_ImageCountClamp ==
    fpc = "done" =>
        LET c == surface_capabilities
        IN  /\ c.max_image_count = 0
                  => min_image_count = Max(3, c.min_image_count)
            /\ (c.max_image_count # 0
                  /\ c.min_image_count <= c.max_image_count)
                  => min_image_count =
                        Clamp(3, c.min_image_count, c.max_image_count)

\* C9: when the surface reports an empty format list, new has failed with
\* the no-surface-format error, no swap-chain creation call was issued, no
\* swap chain exists and no format was substituted.
C9_EmptyFormatList ==
    (surface_formats.reported /\ surface_formats.formats = <<>>)
    =>  /\ pc = "failed"
        /\ error = ErrNoSurfaceFormat
        /\ ~Issued("create_swapchain")
        /\ Swapchain \notin live
        /\ surface_format = ""
        /\ swapchain_create_info = NoCreateInfo

\* C9 witness: the format query of create_swapchain_and_image_views has
\* returned an empty list and new has failed.
C9_Witness ==
    /\ surface_formats.reported
    /\ surface_formats.formats = <<>>
    /\ calls[Len(calls)] =
          [fn |-> "get_physical_device_surface_formats", ok |-> TRUE]
    /\ error = ErrNoSurfaceFormat

\* The stage of the bootstrap sequence a driver call belongs to; "" for
\* the queries new also repeats in other stages and for the destroy calls.
CallStage(fn) ==
    CASE fn \in {"enumerate_required_extensions", "create_instance"} ->
            "instance"
      [] fn = "create_debug_utils_messenger" -> "debug messenger"
      [] fn = "create_surface" -> "surface"
      [] fn = "enumerate_physical_devices" -> "physical device"
      [] fn \in {"get_physical_device_queue_family_properties",
                 "get_physical_device_surface_support"} -> "queue families"
      [] fn \in {"create_device", "get_device_queue"} ->
            "logical device and queues"
      [] fn \in {"get_physical_device_surface_present_modes",
                 "create_swapchain", "get_swapchain_images",
                 "create_image_view"} -> "swap chain and image views"
      [] fn = "create_render_pass" -> "render pass"
      [] fn \in {"create_shader_module", "create_pipeline_layout",
                 "create_graphics_pipelines"} -> "pipeline"
      [] fn = "create_framebuffer" -> "framebuffers"
      [] fn = "create_command_pool" -> "command pools"
      [] fn \in {"allocate_command_buffers", "begin_command_buffer",
                 "cmd_begin_render_pass", "cmd_bind_pipeline", "cmd_draw",
                 "cmd_end_render_pass", "end_command_buffer"} ->
            "command buffers"
      [] OTHER -> ""

BootstrapOrder ==
    << "instance", "debug messenger", "surface", "physical device",
       "queue families", "logical device and queues",
       "swap chain and image views", "render pass", "pipeline",
       "framebuffers", "command pools", "command buffers" >>

CallStages ==
    Collapse(SelectSeq([k \in DOMAIN calls |-> CallStage(calls[k].fn)],
                       LAMBDA st : st # ""))

\* C10: the calls of new occur stage by stage in the order instance, debug
\* messenger, surface, physical device, queue families, logical device and
\* queues, swap chain and image views, render pass, pipeline, framebuffers,
\* command pools, command buffers, no stage entered twice; and every object
\* was created after all the objects it depends on.
C10_LinearBootstrap ==
    /\ IsPrefix(CallStages, BootstrapOrder)
    /\ \A k \in DOMAIN created :
          Parents(created[k]) \subseteq {created[j] : j \in 1..(k - 1)}

\* C10 witness: new has returned the context after all twelve stages.
C10_Witness ==
    /\ pc = "constructed"
    /\ CallStages = BootstrapOrder
    /\ Len(created) >= 12

FailedCalls == {k \in DOMAIN calls : ~calls[k].ok}

AfterSwapchain ==
    {"create_attachments", "create_render_pass", "create_vertex_shader_module",
     "create_fragment_shader_module", "create_pipeline_layout",
     "create_graphics_pipelines", "create_framebuffer", "create_command_pools",
     "create_commandbuffers", "begin_command_buffer", "record_command_buffer",
     "constructed"}

\* The steps of new after create_framebuffers has returned Ok.
AfterFramebuffers ==
    {"create_command_pools", "create_commandbuffers", "begin_command_buffer",
     "record_command_buffer", "constructed"}

\* C12: once create_swapchain_and_image_views has succeeded there are as
\* many image views as images the swap chain returned, and the view at
\* position k was created for the image at position k.
C12_ViewsMatchImages ==
    pc \in AfterSwapchain =>
        /\ Len(swapchain_image_views) = swapchain_images
        /\ Len(image_view_infos) = swapchain_images
        /\ \A k \in 1..swapchain_images :
              /\ image_view_infos[k].image = k
              /\ swapchain_image_views[k] = created[
                    CHOOSE c \in DOMAIN created :
                        Cardinality({d \in 1..c : created[d].kind = "image_view"}) = k
                        /\ created[c].kind = "image_view"]

\* C12 witness: the swap chain returned several images and all the views
\* were created.
C12_Witness ==
    /\ pc = "create_attachments"
    /\ swapchain_images >= 2
    /\ Len(swapchain_image_views) = swapchain_images

\* C13: once create_framebuffers has succeeded there is one framebuffer per
\* image view, the framebuffer at position k has the view at position k as
\* its single attachment, and every framebuffer has the width and height of
\* the extent the swap chain was created with, and 1 layer.
C13_FramebuffersMatchViews ==
    pc \in AfterFramebuffers =>
        /\ Len(framebuffers) = Len(swapchain_image_views)
        /\ Len(framebuffer_infos) = Len(swapchain_image_views)
        /\ Cardinality(Range(framebuffers)) = Len(framebuffers)
        /\ \A k \in DOMAIN framebuffer_infos :
              /\ framebuffer_infos[k].attachments = << swapchain_image_views[k] >>
              /\ framebuffer_infos[k].width =
                    swapchain_create_info.image_extent.width
              /\ framebuffer_infos[k].height =
                    swapchain_create_info.image_extent.height
              /\ framebuffer_infos[k].layers = 1

\* C13 witness: framebuffers were created for several image views.
C13_Witness ==
    /\ pc = "create_command_pools"
    /\ Len(framebuffers) >= 2

\* C14: the present mode handed to create_swapchain is FIFO, whatever the
\* first present mode the surface reported.
C14_PresentModeFifo ==
    Issued("create_swapchain") => swapchain_create_info.present_mode = "FIFO"

\* C14 witness: create_swapchain was called after the surface reported
\* MAILBOX as its first present mode.
C14_Witness ==
    /\ Issued("create_swapchain")
    /\ surface_present_mode = "MAILBOX"

\* The full recording of the command buffer at position k.
C15_Recording(k) ==
    << [cmd |-> "begin"],
       [cmd |-> "begin_render_pass", framebuffer |-> Framebuffer(k),
        render_area |-> swapchain_create_info.image_extent],
       [cmd |-> "bind_pipeline", pipeline |-> Pipeline],
       [cmd |-> "draw", vertex_count |-> 1, instance_count |-> 1,
        first_vertex |-> 0, first_instance |-> 0],
       [cmd |-> "end_render_pass"],
       [cmd |-> "end"] >>

\* C15: in the constructed context every command buffer holds exactly
\* begin, begin render pass on the framebuffer of its position, bind
\* pipeline, one draw (1, 1, 0, 0), end render pass, end; and at every
\* moment every buffer but the last one begun is fully recorded.
C15_RecordedSequence ==
    /\ pc = "constructed" =>
          /\ Len(recorded) = Len(commandbuffers)
          /\ \A k \in DOMAIN recorded :
                /\ recorded[k] = C15_Recording(k)
                /\ framebuffers[k] = Framebuffer(k)
    /\ \A k \in DOMAIN recorded :
          k < Len(recorded) => recorded[k] = C15_Recording(k)

\* C15 witness: several command buffers were recorded.
C15_Witness ==
    /\ pc = "constructed"
    /\ Len(recorded) >= 2

Begins(cmds) == Cardinality({n \in DOMAIN cmds : cmds[n].cmd = "begin"})

BeginCalls ==
    Cardinality({k \in DOMAIN calls :
                    calls[k].fn = "begin_command_buffer" /\ calls[k].ok})

\* C16: as many command buffers are allocated as there are framebuffers;
\* no buffer is begun more than once, and in the constructed context and
\* during its teardown every buffer was begun exactly once; new never
\* panics after the allocation (framebuffers[i] stays in range).
C16_OneRecordingPerFramebuffer ==
    /\ (\E k \in DOMAIN calls :
            calls[k].fn = "allocate_command_buffers" /\ calls[k].ok)
          => Len(commandbuffers) = Len(framebuffers)
    /\ Len(recorded) <= Len(commandbuffers)
    /\ BeginCalls = Len(recorded)
    /\ \A k \in DOMAIN recorded : Begins(recorded[k]) = 1
    /\ (pc = "constructed" \/ destroyed # <<>>)
          => Len(recorded) = Len(commandbuffers)
    /\ ~(pc = "panicked" /\ Issued("allocate_command_buffers"))

\* C16 witness: the context with several command buffers has been dropped.
C16_Witness ==
    /\ pc = "dropped"
    /\ Len(commandbuffers) >= 2
    /\ BeginCalls = Len(commandbuffers)

\* C17: when begin_command_buffer or end_command_buffer fails for buffer i,
\* the error new returns names the index i, and no buffer at or after
\* position i is recorded further.  The code returns the bare vk::Result.
C17_ErrorNamesBuffer ==
    (pc = "failed" /\ (LastCallFailed("begin_command_buffer")
                       \/ LastCallFailed("end_command_buffer")))
    =>  /\ ErrorNamesBuffer(error, i)
        /\ Len(recorded) <= i + 1

DestroyedAt(o) == {k \in DOMAIN destroyed : destroyed[k] = o}

CallsOf(fn) == {k \in DOMAIN calls : calls[k].fn = fn}

\* C18: in the teardown of Drop for Vulkan and in the teardown block of
\* main, the debug messenger is destroyed before the instance: whenever the
\* instance has been destroyed the messenger has been destroyed earlier,
\* and no destroy_debug_utils_messenger call follows a destroy_instance
\* call.
C18_MessengerBeforeInstance ==
    /\ \A b \in DestroyedAt(VkInst) :
          \E a \in DestroyedAt(Messenger) : a < b
    /\ \A a \in DestroyedAt(Messenger), b \in DestroyedAt(VkInst) : a < b
    /\ \A a \in CallsOf("destroy_debug_utils_messenger"),
          b \in CallsOf("destroy_instance") : a < b
    /\ pc \in {"dropped", "main_done"} =>
          /\ DestroyedAt(VkInst) # {}
          /\ VkInst \notin live /\ Messenger \notin live

\* C18 witness: the teardown block of main has run to its end.
C18_Witness ==
    /\ pc = "main_done"
    /\ destroyed = << Surface, Device, Messenger, VkInst >>

\* C18 witness of the other path: the context has been dropped.
C18_WitnessDrop ==
    /\ pc = "dropped"
    /\ DestroyedAt(Messenger) # {}
    /\ DestroyedAt(VkInst) # {}

C19_Valid(props, index) ==
    /\ index >= 0
    /\ index < Len(props)
    /\ props[index + 1].queue_count > 0

\* C19: whenever get_queue_family_indices succeeds (the variant of
\* vulkan.rs and the variant of main.rs), the graphics index and the
\* transfer index are below the number of families the device reported
\* and each names a family with queue_count > 0.
C19_IndicesValid ==
    /\ (VulkanVariantDone /\ qf_result.status = "ok") =>
          /\ C19_Valid(queue_family_properties, qf_result.graphics)
          /\ C19_Valid(queue_family_properties, qf_result.transfer)
    /\ (MainVariantDone /\ qf_result_main.status = "ok") =>
          /\ C19_Valid(queue_family_properties, qf_result_main.graphics)
          /\ C19_Valid(queue_family_properties, qf_result_main.transfer)

\* C19 witness: the first family has the transfer flag and no queues; the
\* selection succeeds with the second family for both roles.
C19_Witness ==
    /\ VulkanVariantDone
    /\ Len(queue_family_properties) = 2
    /\ queue_family_properties[1].queue_count = 0
    /\ queue_family_properties[1].transfer
    /\ queue_family_properties[1].graphics
    /\ qf_result.status = "ok"
    /\ qf_result.graphics = 1
    /\ qf_result.transfer = 1

\* C20: the queue requests of the create_device call contain no two
\* entries with the same family index.  The code always pushes one request
\* per role, also when both roles selected the same family.
C20_NoDuplicateRequests ==
    Issued("create_device") =>
        \A a, b \in DOMAIN queue_infos :
            a # b => queue_infos[a] # queue_infos[b]

\* C21: create_physical_device returns the device at index 0 whenever the
\* enumeration is non-empty, and when the enumeration is empty new returns
\* an error (the process is not aborted).  The code indexes phys_devs[0]
\* without a test, which panics on the empty enumeration.
C21_FirstDeviceOrFailure ==
    (physical_device.status \notin {"none", ErrVk})
    =>  IF physical_device.enumerated > 0
        THEN physical_device.status = "ok" /\ physical_device.index = 0
        ELSE pc = "failed" /\ error # ""

C22_DestroyFunctions ==
    {"destroy_command_pool", "destroy_framebuffer", "destroy_image_view",
     "destroy_swapchain", "destroy_surface", "destroy_render_pass",
     "destroy_shader_module", "destroy_pipeline_layout", "destroy_pipeline",
     "destroy_device", "destroy_debug_utils_messenger", "destroy_instance"}

\* The handle through which an object is destroyed: the instance for the
\* messenger and the surface, the logical device for what the device made.
C22_DestroyedThrough(o) ==
    CASE o.kind = "instance" -> {}
      [] o.kind = "logical_device" -> {}
      [] o.kind \in {"debug_utils_messenger", "surface"} -> {VkInst}
      [] OTHER -> {Device}

\* C22: no object is ever destroyed twice and every destroy call destroys
\* one object that is not a command buffer; no object is destroyed through
\* the logical device or the instance after that device or instance was
\* destroyed; and once a constructed context has been dropped, every
\* object created during construction has been destroyed, the command
\* buffers with their pool and by no call of their own.
C22_DestroyedExactlyOnce ==
    /\ \A a, b \in DOMAIN destroyed :
          a # b => destroyed[a] # destroyed[b]
    /\ Range(destroyed) \subseteq Range(created)
    /\ Cardinality({k \in DOMAIN calls : calls[k].fn \in C22_DestroyFunctions})
          = Cardinality({k \in DOMAIN destroyed :
                            destroyed[k].kind # "commandbuffer"})
    /\ \A a, b \in DOMAIN destroyed :
          (a < b) => destroyed[a] \notin C22_DestroyedThrough(destroyed[b])
    /\ \A a, b \in DOMAIN destroyed :
          (destroyed[a].kind = "commandbuffer"
              /\ destroyed[b].kind = "command_pool_graphics") => a < b
    /\ pc = "dropped" =>
          /\ live = {}
          /\ Range(destroyed) = Range(created)
          /\ Len(destroyed) = Len(created)
          /\ Range(commandbuffers) \subseteq Range(destroyed)
          /\ ~Issued("free_command_buffers")

\* C22 witness: a context with several images, framebuffers and command
\* buffers has been dropped and nothing is left alive.
C22_Witness ==
    /\ pc = "dropped"
    /\ Len(framebuffers) >= 2
    /\ Len(commandbuffers) >= 2
    /\ live = {}
    /\ Len(destroyed) >= 16

\* The extent of every place that takes one, once that place is built.
C23_ExtentInUse ==
    /\ Issued("get_physical_device_queue_family_properties")
          => extent # NoExtent
    /\ swapchain_create_info.status = "built"
          => swapchain_create_info.image_extent = extent
    /\ \A k \in DOMAIN framebuffer_infos :
          /\ framebuffer_infos[k].width = extent.width
          /\ framebuffer_infos[k].height = extent.height
    /\ Issued("create_graphics_pipelines") => pipeline_extent = extent
    /\ \A k \in DOMAIN recorded :
          \A n \in DOMAIN recorded[k] :
              recorded[k][n].cmd = "begin_render_pass"
                  => recorded[k][n].render_area = extent

\* Once read, the extent keeps its value at every step.
C23_ExtentKept == (extent # NoExtent) => (extent' = extent)

\* C23: the extent read before queue-family selection is the extent of
\* the swap-chain images, of every framebuffer, of the viewport and
\* scissor and of every recorded render area, and no later step, the
\* second capabilities query included, changes it.
C23_OneExtent == []C23_ExtentInUse /\ [][C23_ExtentKept]_vars

\* C23 witness: the context is constructed with an extent that differs
\* from the current extent the second capabilities query reported.
C23_Witness ==
    /\ pc = "constructed"
    /\ Len(recorded) >= 1
    /\ current_extent # NoExtent
    /\ current_extent # extent

\* C24: the format of every swap-chain image view equals the image format
\* of the swap chain and the format of the color attachment of the render
\* pass.  The views are created with the fixed format B8G8R8A8_UNORM, the
\* swap chain and the attachment with the first format the surface reports.
C24_FormatsAgree ==
    /\ \A k \in DOMAIN image_view_infos :
          image_view_infos[k].format = swapchain_create_info.image_format
    /\ attachment_format # "" =>
          /\ attachment_format = swapchain_create_info.image_format
          /\ \A k \in DOMAIN image_view_infos :
                image_view_infos[k].format = attachment_format

\* The surface reported an empty present-mode list: the query returned and
\* the list had no first element.
C25_EmptyPresentModes ==
    /\ \E k \in DOMAIN calls :
          calls[k] = [fn |-> "get_physical_device_surface_present_modes",
                      ok |-> TRUE]
    /\ surface_present_mode = ""

\* C25: when the surface reports an empty present-mode list, new fails
\* with the no-present-mode error at that query, before any swap chain is
\* created; the mode of a swap chain that is created is FIFO all the same.
C25_EmptyPresentModeList ==
    /\ C25_EmptyPresentModes =>
          /\ pc = "failed"
          /\ error = ErrNoPresentMode
          /\ calls[Len(calls)].fn = "get_physical_device_surface_present_modes"
          /\ ~Issued("create_swapchain")
          /\ Swapchain \notin Range(created)
          /\ swapchain_create_info = NoCreateInfo
    /\ Issued("create_swapchain") =>
          /\ surface_present_mode \in PresentModes
          /\ swapchain_create_info.present_mode = "FIFO"

\* C25 witness: the present-mode query returned an empty list after the
\* logical device was created, and new has failed.
C25_Witness ==
    /\ C25_EmptyPresentModes
    /\ error = ErrNoPresentMode
    /\ Device \in live

C26_Failing(props) ==
    {k \in DOMAIN props : props[k].surface_support = "error"}

\* C26: if the surface-support query fails for any family of the list,
\* get_queue_family_indices returns that error with no index selected,
\* also when a family before the failing one satisfied both predicates,
\* and the first failing family is the last one examined.
C26_SupportQueryFailure ==
    (VulkanVariantDone /\ C26_Failing(queue_family_properties) # {})
    =>  /\ qf_result.status = ErrVk
        /\ DOMAIN qf_result = {"status", "examined"}
        /\ qf_result.examined = Lowest(C26_Failing(queue_family_properties))

\* C26 witness: family 0 satisfies both predicates, the query fails for
\* family 1, and the selection ended with the error.
C26_Witness ==
    /\ VulkanVariantDone
    /\ Len(queue_family_properties) = 2
    /\ queue_family_properties[1] =
          [queue_count |-> 1, graphics |-> TRUE, transfer |-> TRUE,
           surface_support |-> "true"]
    /\ queue_family_properties[2].surface_support = "error"
    /\ qf_result.status = ErrVk

C27_Created == << VkInst, Messenger, Device, Surface >>

C27_Destroyed == << Surface, Device, Messenger, VkInst >>

C27_WitnessDone ==
    /\ pc = "main_done"
    /\ created = C27_Created
    /\ destroyed = Reverse(created)

====
